---- MODULE Spec2Model ----
(***************************************************************************)
(* A model of vbox.py, a command-line wrapper around VBoxManage.           *)
(*                                                                         *)
(* bytes objects are sequences of byte codes (integers); str objects are   *)
(* sequences of one-character strings; bytes.decode('utf-8') maps one to   *)
(* the other.  Only ASCII bytes are drawn, so decode never raises.         *)
(* The external tool is opaque: each invocation returns an exit status and *)
(* a standard output chosen nondeterministically from bounded sets.        *)
(***************************************************************************)
EXTENDS Integers, Sequences, FiniteSets, TLC

VARIABLES
    pc,       \* position of the running operation
    op,       \* the operation under way
    args,     \* its arguments
    stdout,   \* standard output the function under way has captured
    ret,      \* value returned by the operation
    exc,      \* the exception that ended the operation, or "none"
    calls,    \* the external-tool invocations issued so far, in order
    printed,  \* what the command has printed, in order
    response, \* the line the user typed at the confirmation prompt
    vms,      \* local: the list built by list_vms()
    idx,      \* local: position of the loop over vms, or of create_vm's steps
    vm,       \* local: the VM looked up
    row,      \* local: the row ls is building
    file,     \* the defaults file on disk
    file0     \* the defaults file as it was when the operation started

vars == <<pc, op, args, stdout, ret, exc, calls, printed, response, vms, idx, vm, row, file, file0>>

\* the locals of the command handlers, and the world outside the functions
locals == <<printed, response, vms, idx, vm, row>>
disk == <<file, file0>>

\* ---------------------------------------------------------------- bounds

\* longest run of blanks before, between and after the fields of a list line
MaxPad == 2
\* most lines in one captured standard output
MaxLines == 2
\* longest info line drawn exhaustively
MaxInfoLen == 4

\* ---------------------------------------------------------------- bytes and str

DQUOTE == 34
LBRACE == 123
RBRACE == 125
COLON == 58
NEWLINE == 10
SPACE == 32
TAB == 9

Chr(b) ==
    CASE b = 34 -> "\""
      [] b = 123 -> "{"
      [] b = 125 -> "}"
      [] b = 58 -> ":"
      [] b = 10 -> "\n"
      [] b = 32 -> " "
      [] b = 9 -> "\t"
      [] b = 97 -> "a"
      [] b = 98 -> "b"
      [] b = 120 -> "x"
      [] b = 121 -> "y"
      [] b = 107 -> "k"
      [] b = 75 -> "K"
      [] b = 118 -> "v"
      [] b = 86 -> "V"
      [] b = 114 -> "r"
      [] b = 82 -> "R"
      [] b = 100 -> "d"
      [] b = 68 -> "D"
      [] b = 101 -> "e"
      [] b = 69 -> "E"

ByteCodes == {34, 123, 125, 58, 10, 32, 9, 97, 98, 120, 121, 107, 75, 118, 86, 114, 82, 100, 68, 101, 69}

Ord(c) == CHOOSE b \in ByteCodes : Chr(b) = c

\* a bytes literal b'...'
Bytes(s) == [i \in 1..Len(s) |-> Ord(s[i])]

\* bytes.decode('utf-8') on ASCII bytes
decode(bs) == [i \in 1..Len(bs) |-> Chr(bs[i])]

LowerChar(c) ==
    CASE c = "K" -> "k"
      [] c = "V" -> "v"
      [] c = "R" -> "r"
      [] c = "D" -> "d"
      [] c = "E" -> "e"
      [] c = "Y" -> "y"
      [] c = "S" -> "s"
      [] c = "N" -> "n"
      [] c = "O" -> "o"
      [] OTHER -> c

\* str.lower()
lower(s) == [i \in 1..Len(s) |-> LowerChar(s[i])]

\* bytes.find(c): 0-based index of the first c, or -1
find(s, c) ==
    IF \E i \in 1..Len(s) : s[i] = c
    THEN (CHOOSE i \in 1..Len(s) : s[i] = c /\ \A j \in 1..(i - 1) : s[j] # c) - 1
    ELSE -1

Min(a, b) == IF a < b THEN a ELSE b

\* s[a:b] for non-negative a and b
Slice(s, a, b) == SubSeq(s, a + 1, Min(b, Len(s)))

\* s[a:]
SliceFrom(s, a) == SubSeq(s, a + 1, Len(s))

RECURSIVE split(_, _)
\* bytes.split(sep) for a one-byte separator
split(s, sep) ==
    LET k == find(s, sep)
    IN  IF k = -1 THEN <<s>>
        ELSE <<Slice(s, 0, k)>> \o split(SliceFrom(s, k + 1), sep)

\* bytes.split(sep, 1)
split1(s, sep) ==
    LET k == find(s, sep)
    IN  IF k = -1 THEN <<s>> ELSE <<Slice(s, 0, k), SliceFrom(s, k + 1)>>

IsSpace(b) == b \in {32, 9, 10, 13, 11, 12}

RECURSIVE lstrip(_)
lstrip(s) == IF s # <<>> /\ IsSpace(Head(s)) THEN lstrip(Tail(s)) ELSE s

RECURSIVE rstrip(_)
rstrip(s) ==
    IF s # <<>> /\ IsSpace(s[Len(s)]) THEN rstrip(SubSeq(s, 1, Len(s) - 1)) ELSE s

\* bytes.strip()
strip(s) == rstrip(lstrip(s))

None == [kind |-> "None"]

\* ---------------------------------------------------------------- output parsers

parse_vm_list_line(line) ==
    LET lquote == find(line, DQUOTE) + 1
        rquote == find(SliceFrom(line, lquote), DQUOTE) + 1
        name   == Slice(line, lquote, rquote)
        lbrace == find(line, LBRACE) + 1
        rbrace == find(SliceFrom(line, lquote), RBRACE) + 1
        id     == Slice(line, lbrace, rbrace)
    IN  <<decode(id), decode(name)>>

parse_vm_info_line(line) ==
    IF find(line, COLON) = -1
    THEN <<None, None>>
    ELSE LET kv == split1(line, COLON)
         IN  <<[kind |-> "str", v |-> decode(kv[1])],
               [kind |-> "bytes", v |-> strip(kv[2])]>>

\* ---------------------------------------------------------------- external tool

\* the argument vector handed to VBoxManage: sub-command, the VM or file it
\* names, and the option words that follow
\* and the medium it attaches
Argv(sub, target, opts, medium) ==
    [sub |-> sub, target |-> target, opts |-> opts, medium |-> medium]

\* vbox_manage(args): run the tool and wait; a zero exit returns the process,
\* a non-zero exit raises CalledProcessError
vbox_manage(argv, ok) ==
    /\ calls' = Append(calls, [argv |-> argv, ok |-> ok])
    /\ ~ok => exc' = "CalledProcessError"

\* ---------------------------------------------------------------- registry

VirtualMachine(id, name) == [id |-> id, name |-> name]

RECURSIVE list_vms_loop(_)
list_vms_loop(lines) ==
    IF lines = <<>> THEN <<>>
    ELSE IF Head(lines) = <<>> THEN list_vms_loop(Tail(lines))
    ELSE LET t == parse_vm_list_line(Head(lines))
         IN  <<VirtualMachine(t[1], t[2])>> \o list_vms_loop(Tail(lines))

\* list_vms() on the output of 'list vms'
list_vms(out) == list_vms_loop(split(out, NEWLINE))

\* VirtualMachine.is_running() on the output of 'list runningvms'
is_running(self, out) ==
    LET lines == split(out, NEWLINE)
    IN  \E k \in 1..Len(lines) : parse_vm_list_line(lines[k])[1] = self.id

RECURSIVE info_loop(_, _)
info_loop(lines, key) ==
    IF lines = <<>> THEN None
    ELSE LET kv == parse_vm_info_line(Head(lines))
         IN  IF kv[1] = None THEN info_loop(Tail(lines), key)
             ELSE IF lower(kv[1].v) = lower(key) THEN kv[2]
             ELSE info_loop(Tail(lines), key)

\* VirtualMachine._info(key) on the output of 'showvminfo'
info(key, out) == info_loop(split(out, NEWLINE), key)

RECURSIVE first_by_name(_, _)
first_by_name(l, name) ==
    IF l = <<>> THEN None
    ELSE IF Head(l).name = name THEN Head(l)
    ELSE first_by_name(Tail(l), name)

RECURSIVE last_by_name(_, _)
last_by_name(l, name) ==
    IF l = <<>> THEN None
    ELSE IF l[Len(l)].name = name THEN l[Len(l)]
    ELSE last_by_name(SubSeq(l, 1, Len(l) - 1), name)

\* a lookup that keeps scanning and returns the last match
vm_by_name_last(name, out) == last_by_name(list_vms(out), name)

\* vm_by_name(name) on the output of 'list vms'
vm_by_name(name, out) == first_by_name(list_vms(out), name)

RECURSIVE first_by_id(_, _)
first_by_id(l, id) ==
    IF l = <<>> THEN None
    ELSE IF Head(l).id = id THEN Head(l)
    ELSE first_by_id(Tail(l), id)

\* vm_by_id(id) on the output of 'list vms'
vm_by_id(id, out) == first_by_id(list_vms(out), id)

\* ---------------------------------------------------------------- inputs

Ws(n) == [i \in 1..n |-> SPACE]

Opt(present, b) == IF present THEN <<b>> ELSE <<>>

\* a list line: blanks, "NAME", blanks, {ID}, blanks, each delimiter present or not
ListLine(lead, q1, name, q2, sep, b1, id, b2, trail) ==
    Ws(lead) \o Opt(q1, DQUOTE) \o name \o Opt(q2, DQUOTE) \o Ws(sep)
        \o Opt(b1, LBRACE) \o id \o Opt(b2, RBRACE) \o Ws(trail)

NameBytes == {Bytes(<<"a">>), Bytes(<<"b">>), Bytes(<<"a", " ", "b">>)}
IdBytes == {Bytes(<<"x">>), Bytes(<<"y">>), Bytes(<<"x", "y">>)}

\* every list line handed to the line parser
ListLines ==
    {ListLine(lead, q[1], n, q[2], sep, q[3], i, q[4], trail) :
        lead \in 0..MaxPad, sep \in 0..MaxPad, trail \in 0..MaxPad,
        q \in [1..4 -> BOOLEAN], n \in NameBytes, i \in IdBytes}

OutNames == {Bytes(<<"a">>), Bytes(<<"b">>)}
OutIds == {Bytes(<<"x">>), Bytes(<<"y">>)}

\* the lines a captured listing is made of: well-formed lines with and without
\* a leading blank, lines with one delimiter missing, and the blank line
OutLines ==
    {ListLine(lead, TRUE, n, TRUE, 1, TRUE, i, TRUE, 0) :
        lead \in {0, 1}, n \in OutNames, i \in OutIds}
    \cup {ListLine(0, q[1], Bytes(<<"a">>), q[2], 1, q[3], Bytes(<<"x">>), q[4], 0) :
            q \in {f \in [1..4 -> BOOLEAN] : Cardinality({k \in 1..4 : ~f[k]}) = 1}}
    \cup {<<>>}

RECURSIVE Join(_)
\* b'\n'.join(lines)
Join(ls) ==
    IF Len(ls) = 1 THEN ls[1] ELSE ls[1] \o <<NEWLINE>> \o Join(Tail(ls))

SeqsUpTo(S, n) == UNION {[1..k -> S] : k \in 1..n}

\* listings of up to MaxLines lines, with and without a final newline
OutputsOf(lineset) ==
    LET J == {Join(ls) : ls \in SeqsUpTo(lineset, MaxLines)}
    IN  J \cup {o \o <<NEWLINE>> : o \in J}

ListOutputs == OutputsOf(OutLines)

\* every id and name the line parser can hand back for a line of a listing
ParsedIds == {parse_vm_list_line(l)[1] : l \in OutLines}
ParsedNames == {parse_vm_list_line(l)[2] : l \in OutLines}

InfoAlphabet == {COLON, SPACE, Ord("k"), Ord("K"), Ord("v")}

\* every info line of up to MaxInfoLen bytes
InfoLines == UNION {[1..k -> InfoAlphabet] : k \in 0..MaxInfoLen}

InfoOutLines ==
    {Bytes(<<"k", ":", " ", "v">>), Bytes(<<"K", ":", "k">>), Bytes(<<" ", "k", ":", "v">>),
     Bytes(<<"v", ":", " ", "k", " ">>), Bytes(<<"v">>), <<>>}

InfoOutputs == OutputsOf(InfoOutLines)

InfoKeys == {<<"k">>, <<"K">>, <<"v">>, <<"x">>}

NoFile == [kind |-> "absent"]

\* ---------------------------------------------------------------- the functions, one call each

CallArgs ==
    {[op |-> "parse_vm_list_line", line |-> l] : l \in ListLines}
    \cup {[op |-> "parse_vm_info_line", line |-> l] : l \in InfoLines}
    \cup {[op |-> "info", self |-> VirtualMachine(<<"x">>, <<"a">>), key |-> k] : k \in InfoKeys}
    \cup {[op |-> "list_vms"]}
    \cup {[op |-> "is_running", self |-> VirtualMachine(i, <<"a">>)] : i \in ParsedIds \cup {<<"y", "x">>}}
    \cup {[op |-> "vm_by_name", name |-> n] : n \in ParsedNames \cup {<<"b", "a">>}}
    \cup {[op |-> "vm_by_id", id |-> i] : i \in ParsedIds \cup {<<"y", "x">>}}

Init ==
    /\ args \in CallArgs
    /\ op = args.op
    /\ pc = "call"
    /\ stdout = <<>>
    /\ ret = None
    /\ exc = "none"
    /\ calls = <<>>
    /\ printed = <<>>
    /\ response = None
    /\ vms = <<>>
    /\ idx = 0
    /\ vm = None
    /\ row = None
    /\ file = NoFile
    /\ file0 = NoFile

ParseVmListLine ==
    /\ pc = "call" /\ op = "parse_vm_list_line"
    /\ ret' = parse_vm_list_line(args.line)
    /\ pc' = "done"
    /\ UNCHANGED <<op, args, stdout, exc, calls, locals, disk>>

ParseVmInfoLine ==
    /\ pc = "call" /\ op = "parse_vm_info_line"
    /\ ret' = parse_vm_info_line(args.line)
    /\ pc' = "done"
    /\ UNCHANGED <<op, args, stdout, exc, calls, locals, disk>>

\* the tool exits non-zero: vbox_manage raises and the caller does not catch it
Raises(argv) ==
    /\ vbox_manage(argv, FALSE)
    /\ pc' = "raised"
    /\ UNCHANGED <<op, args, stdout, ret, locals, disk>>

Info ==
    /\ pc = "call" /\ op = "info"
    /\ LET argv == Argv("showvminfo", args.self.id, <<>>, <<>>)
       IN  \/ \E out \in InfoOutputs :
                /\ vbox_manage(argv, TRUE)
                /\ stdout' = out
                /\ ret' = info(args.key, out)
                /\ pc' = "done"
                /\ UNCHANGED <<op, args, exc, locals, disk>>
           \/ Raises(argv)

ListVms ==
    /\ pc = "call" /\ op = "list_vms"
    /\ LET argv == Argv("list", <<>>, <<"vms">>, <<>>)
       IN  \/ \E out \in ListOutputs :
                /\ vbox_manage(argv, TRUE)
                /\ stdout' = out
                /\ ret' = list_vms(out)
                /\ pc' = "done"
                /\ UNCHANGED <<op, args, exc, locals, disk>>
           \/ Raises(argv)

IsRunning ==
    /\ pc = "call" /\ op = "is_running"
    /\ LET argv == Argv("list", <<>>, <<"runningvms">>, <<>>)
       IN  \/ \E out \in ListOutputs :
                /\ vbox_manage(argv, TRUE)
                /\ stdout' = out
                /\ ret' = is_running(args.self, out)
                /\ pc' = "done"
                /\ UNCHANGED <<op, args, exc, locals, disk>>
           \/ Raises(argv)

VmByName ==
    /\ pc = "call" /\ op = "vm_by_name"
    /\ LET argv == Argv("list", <<>>, <<"vms">>, <<>>)
       IN  \/ \E out \in ListOutputs :
                /\ vbox_manage(argv, TRUE)
                /\ stdout' = out
                /\ ret' = vm_by_name(args.name, out)
                /\ pc' = "done"
                /\ UNCHANGED <<op, args, exc, locals, disk>>
           \/ Raises(argv)

VmById ==
    /\ pc = "call" /\ op = "vm_by_id"
    /\ LET argv == Argv("list", <<>>, <<"vms">>, <<>>)
       IN  \/ \E out \in ListOutputs :
                /\ vbox_manage(argv, TRUE)
                /\ stdout' = out
                /\ ret' = vm_by_id(args.id, out)
                /\ pc' = "done"
                /\ UNCHANGED <<op, args, exc, locals, disk>>
           \/ Raises(argv)

Next ==
    \/ ParseVmListLine
    \/ ParseVmInfoLine
    \/ Info
    \/ ListVms
    \/ IsRunning
    \/ VmByName
    \/ VmById

Spec == Init /\ [][Next]_vars

\* ---------------------------------------------------------------- what the parsers are specified to return

Delims == {DQUOTE, LBRACE, RBRACE}
IsBlank(b) == b \in {SPACE, TAB}

\* 1-based positions of the first quote, the quote closing it, the first
\* opening brace and the first closing brace (0 when there is none)
Q1(line) == find(line, DQUOTE) + 1
Q2(line) ==
    IF Q1(line) = 0 \/ find(SliceFrom(line, Q1(line)), DQUOTE) = -1 THEN 0
    ELSE Q1(line) + find(SliceFrom(line, Q1(line)), DQUOTE) + 1
B1(line) == find(line, LBRACE) + 1
B2(line) == find(line, RBRACE) + 1

\* blanks, "NAME", blanks, {ID}, blanks; NAME and ID hold no quote or brace
WellFormed(line) ==
    /\ Q1(line) > 0 /\ Q2(line) > 0 /\ B1(line) > Q2(line) + 1 /\ B2(line) > B1(line)
    /\ \A j \in 1..Len(line) :
        /\ j < Q1(line) => IsBlank(line[j])
        /\ (Q1(line) < j /\ j < Q2(line)) => line[j] \notin Delims
        /\ (Q2(line) < j /\ j < B1(line)) => IsBlank(line[j])
        /\ (B1(line) < j /\ j < B2(line)) => line[j] \notin Delims
        /\ j > B2(line) => IsBlank(line[j])

RefName(line) == decode(SubSeq(line, Q1(line) + 1, Q2(line) - 1))
RefId(line) == decode(SubSeq(line, B1(line) + 1, B2(line) - 1))

\* a quote pair, an opening brace or a closing brace is missing
DelimiterAbsent(line) == Q2(line) = 0 \/ B1(line) = 0 \/ B2(line) = 0

RECURSIVE RefEntries(_)
\* one entry per well-formed line, in order; every other line gives none
RefEntries(lines) ==
    IF lines = <<>> THEN <<>>
    ELSE IF WellFormed(Head(lines))
         THEN <<VirtualMachine(RefId(Head(lines)), RefName(Head(lines)))>>
                \o RefEntries(Tail(lines))
         ELSE RefEntries(Tail(lines))

RefVms(out) == RefEntries(split(out, NEWLINE))

HasColon(line) == \E j \in 1..Len(line) : line[j] = COLON
RefKey(line) == decode(strip(split1(line, COLON)[1]))
RefValue(line) == decode(strip(split1(line, COLON)[2]))

RECURSIVE RefInfoLoop(_, _)
RefInfoLoop(lines, key) ==
    IF lines = <<>> THEN None
    ELSE IF HasColon(Head(lines)) /\ lower(RefKey(Head(lines))) = lower(key)
         THEN [kind |-> "str", v |-> RefValue(Head(lines))]
         ELSE RefInfoLoop(Tail(lines), key)

RefInfo(key, out) == RefInfoLoop(split(out, NEWLINE), key)

Returned(o) == op = o /\ pc = "done"

\* ---------------------------------------------------------------- claims on the functions

\* C1: for every well-formed list line (blanks, "NAME", blanks, {ID}, blanks)
\* parse_vm_list_line returns exactly (ID, NAME), whatever the blanks around it.
C1_ParsesWellFormedLine ==
    (Returned("parse_vm_list_line") /\ WellFormed(args.line))
        => ret = <<RefId(args.line), RefName(args.line)>>

\* C2: list_vms returns exactly one VirtualMachine per well-formed non-empty
\* line, in output order; a malformed line contributes no entry.
C2_ListsWellFormedLinesOnly ==
    Returned("list_vms") => ret = RefVms(stdout)

\* C3: is_running returns true exactly when the VM's id is the id of some
\* entry of the running-list output.
C3_RunningIffListed ==
    Returned("is_running")
        => (ret <=> \E k \in 1..Len(RefVms(stdout)) : RefVms(stdout)[k].id = args.self.id)

\* C6: on a line with a delimiter absent parse_vm_list_line fails with a
\* malformed-line error; it never returns name/id strings for such a line.
C6_MalformedLineFails ==
    ~(Returned("parse_vm_list_line") /\ DelimiterAbsent(args.line))

\* C7: parse_vm_info_line splits on the first colon and returns the trimmed
\* key and the trimmed value, and no field for a line without a colon; _info
\* skips colon-less lines and returns the value of the first line whose key
\* equals the requested key case-insensitively, or None.
C7_InfoKeyAndValueTrimmed ==
    /\ Returned("parse_vm_info_line") =>
        IF HasColon(args.line)
        THEN /\ ret[1] # None /\ ret[2] # None
             /\ ret[1].v = RefKey(args.line)
             /\ decode(ret[2].v) = RefValue(args.line)
        ELSE ret = <<None, None>>
    /\ Returned("info") =>
        LET r == RefInfo(args.key, stdout)
        IN  IF r = None THEN ret = None ELSE ret # None /\ decode(ret.v) = r.v

\* C5 as stated: for every VM v of list_vms() on an output, vm_by_name(v.name)
\* and vm_by_id(v.id) on that output return a record whose id is v.id.  It is
\* taken on the outputs list_vms() reads as specified, where no defect of the
\* line parser plays a part.
C5_LookupsReturnSameId ==
    LET l == list_vms(stdout)
    IN  l = RefVms(stdout) =>
            /\ Returned("vm_by_name") =>
                \A k \in 1..Len(l) : l[k].name = args.name => (ret # None /\ ret.id = l[k].id)
            /\ Returned("vm_by_id") =>
                \A k \in 1..Len(l) : l[k].id = args.id => (ret # None /\ ret.id = l[k].id)

\* C5 amended: vm_by_id(v.id) returns a record whose id is v.id; vm_by_name(v.name)
\* returns a record named v.name, whose id is v.id when no earlier entry of the
\* list has v's name and another id.
C5_LookupsReturnFirstMatch ==
    LET l == list_vms(stdout)
    IN  /\ Returned("vm_by_name") =>
            \A k \in 1..Len(l) : l[k].name = args.name =>
                /\ ret # None
                /\ ret.name = l[k].name
                /\ (\A j \in 1..(k - 1) : l[j].name = l[k].name => l[j].id = l[k].id)
                    => ret.id = l[k].id
        /\ Returned("vm_by_id") =>
            \A k \in 1..Len(l) : l[k].id = args.id => (ret # None /\ ret.id = l[k].id)

\* a lookup by the name of the second of two listed VMs with different names
C5_Witness ==
    /\ Returned("vm_by_name")
    /\ Len(list_vms(stdout)) = 2
    /\ list_vms(stdout)[1].name # args.name
    /\ list_vms(stdout)[2].name = args.name
    /\ ret # None /\ ret.id = list_vms(stdout)[2].id

\* ---------------------------------------------------------------- rm

Str(s) == [kind |-> "str", v |-> s]

\* truth value of an optional str argument: None and '' are false
Truthy(a) == a # None /\ a.v # <<>>

\* the answer is affirmative when y or yes defaults to being accepted on an
\* empty line as well
confirm_prompt_default_yes(answer) == lower(answer) \in {<<>>, <<"y">>, <<"y", "e", "s">>}

\* confirm_prompt(prompt), given the line input() returns
confirm_prompt(answer) == lower(answer) \in {<<"y">>, <<"y", "e", "s">>}

Answers ==
    {<<>>, <<"y">>, <<"Y">>, <<"y", "e", "s">>, <<"Y", "E", "S">>, <<"Y", "e", "s">>,
     <<"n">>, <<"N">>, <<"n", "o">>, <<"y", "e">>, <<"y", " ">>, <<"y", "e", "s", "s">>}

RmArgs ==
    {[name |-> n, id |-> i] :
        n \in {None} \cup {Str(x) : x \in ParsedNames},
        i \in {None} \cup {Str(x) : x \in {<<>>, <<"x">>, <<"y">>}}}

InitRm ==
    /\ op = "rm"
    /\ args \in RmArgs
    /\ pc = "rm_lookup"
    /\ stdout = <<>>
    /\ ret = None
    /\ exc = "none"
    /\ calls = <<>>
    /\ printed = <<>>
    /\ response = None
    /\ vms = <<>>
    /\ idx = 0
    /\ vm = None
    /\ row = None
    /\ file = NoFile
    /\ file0 = NoFile

Warn(text) == [prefix |-> "WARN", text |-> text]
Info_(text) == [prefix |-> "INFO", text |-> text]

\* rm, lines 265-275: look the VM up by name, else by id; warn and return when
\* there is none
RmLookup ==
    /\ pc = "rm_lookup"
    /\ LET argv == Argv("list", <<>>, <<"vms">>, <<>>)
           found(v) ==
                /\ vm' = v
                /\ IF v = None
                   THEN /\ pc' = "done"
                        /\ printed' = IF Truthy(args.name)
                                      THEN Append(printed, Warn("No virtual machine with name"))
                                      ELSE IF Truthy(args.id)
                                      THEN Append(printed, Warn("No virtual machine with id"))
                                      ELSE printed
                   ELSE /\ pc' = "rm_confirm"
                        /\ printed' = printed
       IN  IF Truthy(args.name) \/ Truthy(args.id)
           THEN \/ \E out \in ListOutputs :
                    /\ vbox_manage(argv, TRUE)
                    /\ found(IF Truthy(args.name) THEN vm_by_name(args.name.v, out)
                             ELSE vm_by_id(args.id.v, out))
                    /\ UNCHANGED <<op, args, stdout, ret, exc, response, vms, idx, row, disk>>
                \/ Raises(argv)
           ELSE /\ found(None)
                /\ UNCHANGED <<op, args, stdout, ret, exc, calls, response, vms, idx, row, disk>>

\* rm, lines 276-278: ask, and return unless the answer is affirmative
RmConfirm ==
    /\ pc = "rm_confirm"
    /\ \E answer \in Answers :
        /\ response' = Str(answer)
        /\ pc' = IF confirm_prompt(answer) THEN "rm_unregister" ELSE "done"
    /\ UNCHANGED <<op, args, stdout, ret, exc, calls, printed, vms, idx, vm, row, disk>>

\* rm, line 279
RmUnregister ==
    /\ pc = "rm_unregister"
    /\ \E ok \in BOOLEAN :
        /\ vbox_manage(Argv("unregistervm", vm.name, <<"--delete">>, <<>>), ok)
        /\ ok => exc' = exc
        /\ pc' = IF ok THEN "done" ELSE "raised"
    /\ UNCHANGED <<op, args, stdout, ret, locals, disk>>

NextRm == RmLookup \/ RmConfirm \/ RmUnregister

SpecRm == InitRm /\ [][NextRm]_vars

\* the sub-commands that only read the tool's state
ReadOnly(argv) == argv.sub \in {"list", "showvminfo"}

\* C8: in rm, 'unregistervm --delete' is issued only after the lookup found a
\* VM and the user answered y or yes (in any letter case); otherwise rm issues
\* no state-changing invocation.
C8_DeleteOnlyAfterConfirm ==
    \A k \in 1..Len(calls) :
        ~ReadOnly(calls[k].argv) =>
            /\ calls[k].argv = Argv("unregistervm", vm.name, <<"--delete">>, <<>>)
            /\ k = 2 /\ Len(calls) = 2
            /\ calls[1] = [argv |-> Argv("list", <<>>, <<"vms">>, <<>>), ok |-> TRUE]
            /\ vm # None
            /\ (Truthy(args.name) => vm.name = args.name.v)
            /\ (~Truthy(args.name) => Truthy(args.id) /\ vm.id = args.id.v)
            /\ response # None
            /\ lower(response.v) \in {<<"y">>, <<"y", "e", "s">>}

\* rm has deleted a VM it found by id after the answer 'Yes'
C8_Witness ==
    /\ pc = "done"
    /\ Len(calls) = 2 /\ calls[2].argv.sub = "unregistervm" /\ calls[2].ok
    /\ ~Truthy(args.name)
    /\ response = Str(<<"Y", "e", "s">>)

\* ---------------------------------------------------------------- create

\* os.path.join(args.base_folder, "%s.vdi" % args.name)
Vdi(a) == a.base_folder \o <<"/">> \o a.name \o <<".", "v", "d", "i">>

\* "%s_sata" % args.name is passed with --storagectl / --name in every storage step
create_vm_steps(a) ==
    << Argv("createvm", a.name, <<"--name", "--ostype", "--register", "--basefolder">>, <<>>),
       Argv("modifyvm", a.name,
            <<"--cpus", "--memory", "--vram", "--boot1", "dvd", "--vrde", "on",
              "--vrdeport", "--vrdeaddress">>, <<>>),
       Argv("modifyvm", a.name, <<"--nic1", "bridged", "--bridgeadapter1">>, <<>>),
       Argv("storagectl", a.name, <<"--name", "--add", "sata">>, <<>>),
       Argv("createhd", <<>>,
            <<"--filename", "--size", "--format", "VDI", "--variant", "Standard">>, Vdi(a)),
       Argv("storageattach", a.name,
            <<"--storagectl", "--port", "1", "--type", "hdd", "--medium">>, Vdi(a)),
       Argv("storageattach", a.name,
            <<"--storagectl", "--port", "0", "--type", "dvddrive", "--medium">>, a.iso) >>

\* a create_vm that attaches the install medium before the disk
create_vm_step_swapped(a, k) ==
    create_vm_steps(a)[IF k = 6 THEN 7 ELSE IF k = 7 THEN 6 ELSE k]

\* the invocation create_vm issues as its k-th
create_vm_step(a, k) == create_vm_steps(a)[k]

CreateArgs ==
    {[name |-> n, iso |-> i, base_folder |-> <<"b">>] :
        n \in {<<"a">>, <<"b">>, <<"a", " ", "b">>},
        i \in {<<"x">>, <<"y">>}}

VrdeLines ==
    {Bytes(<<"V", "R", "D", "E", ":", " ", "e">>), Bytes(<<"v", "r", "d", "e", ":", "d">>),
     Bytes(<<"k", ":", " ", "v">>), <<>>}

\* what 'showvminfo' prints, with and without a VRDE field
VrdeOutputs == OutputsOf(VrdeLines)

InitCreate ==
    /\ op = "create"
    /\ args \in CreateArgs
    /\ pc = "create_check"
    /\ stdout = <<>>
    /\ ret = None
    /\ exc = "none"
    /\ calls = <<>>
    /\ printed = <<>>
    /\ response = None
    /\ vms = <<>>
    /\ idx = 0
    /\ vm = None
    /\ row = None
    /\ file = NoFile
    /\ file0 = NoFile

\* create, lines 245-247: refuse a name that is already listed
CreateCheck ==
    /\ pc = "create_check"
    /\ LET argv == Argv("list", <<>>, <<"vms">>, <<>>)
       IN  \/ \E out \in ListOutputs :
                /\ vbox_manage(argv, TRUE)
                /\ IF vm_by_name(args.name, out) # None
                   THEN /\ printed' = Append(printed, Warn("already exists"))
                        /\ pc' = "done"
                        /\ idx' = idx
                   ELSE /\ printed' = printed
                        /\ pc' = "create_vm"
                        /\ idx' = 1
                /\ UNCHANGED <<op, args, stdout, ret, exc, response, vms, vm, row, disk>>
           \/ Raises(argv)

\* create_vm, lines 216-222: the next invocation of the sequence; a non-zero
\* exit raises out of create_vm and out of create
CreateVmStep ==
    /\ pc = "create_vm" /\ idx \in 1..7
    /\ \E ok \in BOOLEAN :
        /\ vbox_manage(create_vm_step(args, idx), ok)
        /\ ok => exc' = exc
        /\ pc' = IF ~ok THEN "raised" ELSE IF idx = 7 THEN "create_vm_return" ELSE "create_vm"
        /\ idx' = IF ok THEN idx + 1 ELSE idx
    /\ UNCHANGED <<op, args, stdout, ret, printed, response, vms, vm, row, disk>>

\* create_vm, line 223, and create, line 249: vm.name of None raises
CreateVmReturn ==
    /\ pc = "create_vm_return"
    /\ LET argv == Argv("list", <<>>, <<"vms">>, <<>>)
       IN  \/ \E out \in ListOutputs :
                /\ vbox_manage(argv, TRUE)
                /\ vm' = vm_by_name(args.name, out)
                /\ IF vm' = None
                   THEN /\ exc' = "AttributeError"
                        /\ pc' = "raised"
                        /\ printed' = printed
                   ELSE /\ exc' = exc
                        /\ pc' = "create_vrde"
                        /\ printed' = Append(printed, Info_("Created VM"))
                /\ UNCHANGED <<op, args, stdout, ret, response, vms, idx, row, disk>>
           \/ Raises(argv)

\* create, line 250: vm['VRDE'].decode('utf-8') raises when _info returns None
CreateVrde ==
    /\ pc = "create_vrde"
    /\ LET argv == Argv("showvminfo", vm.id, <<>>, <<>>)
       IN  \/ \E out \in VrdeOutputs :
                /\ vbox_manage(argv, TRUE)
                /\ IF info(<<"V", "R", "D", "E">>, out) = None
                   THEN /\ exc' = "AttributeError"
                        /\ pc' = "raised"
                        /\ printed' = printed
                   ELSE /\ exc' = exc
                        /\ pc' = "done"
                        /\ printed' = Append(printed, Info_("VRDE"))
                /\ UNCHANGED <<op, args, stdout, ret, response, vms, idx, vm, row, disk>>
           \/ Raises(argv)

NextCreate == CreateCheck \/ CreateVmStep \/ CreateVmReturn \/ CreateVrde

SpecCreate == InitCreate /\ [][NextCreate]_vars

\* the invocations issued from create_vm's entry on
CreateVmCalls == Tail(calls)

\* C4: create_vm issues createvm, modifyvm (cpu/ram/vram/boot/vrde), modifyvm
\* (bridge), storagectl, createhd, storageattach (hdd), storageattach
\* (dvddrive) in this order; when the k-th exits non-zero exactly the first k
\* have been issued and nothing follows, no cleanup or unregister either, so
\* steps 1..k-1 stay done.
C4_CreateStopsAtFirstFailure ==
    Len(calls) > 0 =>
        LET cv == CreateVmCalls
            expected == <<"createvm", "modifyvm", "modifyvm", "storagectl", "createhd",
                          "storageattach", "storageattach">>
            Names(k) == IF k = 5 THEN <<>> ELSE args.name
            Medium(k) == IF k \in {5, 6} THEN Vdi(args) ELSE IF k = 7 THEN args.iso ELSE <<>>
        IN  /\ \A k \in 1..Len(cv) :
                /\ k <= 7 =>
                    /\ cv[k].argv.sub = expected[k]
                    /\ cv[k].argv.target = Names(k)
                    /\ cv[k].argv.medium = Medium(k)
                /\ k = 2 => "--cpus" \in {cv[k].argv.opts[j] : j \in 1..Len(cv[k].argv.opts)}
                /\ k = 3 => "--bridgeadapter1" \in {cv[k].argv.opts[j] : j \in 1..Len(cv[k].argv.opts)}
                /\ k = 6 => "hdd" \in {cv[k].argv.opts[j] : j \in 1..Len(cv[k].argv.opts)}
                /\ k = 7 => "dvddrive" \in {cv[k].argv.opts[j] : j \in 1..Len(cv[k].argv.opts)}
                /\ k > 7 => ReadOnly(cv[k].argv)
                /\ ~cv[k].ok => k = Len(cv)
                /\ cv[k].argv.sub # "unregistervm"
            /\ (pc = "raised" /\ exc = "CalledProcessError" /\ Len(cv) > 0)
                    => /\ ~cv[Len(cv)].ok
                       /\ \A j \in 1..(Len(cv) - 1) : cv[j].ok

\* the disk attach, the sixth invocation, has failed after five that took effect
C4_Witness ==
    /\ pc = "raised"
    /\ Len(CreateVmCalls) = 6
    /\ CreateVmCalls[6].argv.sub = "storageattach"
    /\ ~CreateVmCalls[6].ok
    /\ \A j \in 1..5 : CreateVmCalls[j].ok

\* ---------------------------------------------------------------- ls

RunLines == {ListLine(0, TRUE, Bytes(<<"a">>), TRUE, 1, TRUE, Bytes(<<"x">>), TRUE, 0),
             ListLine(0, TRUE, Bytes(<<"b">>), TRUE, 1, TRUE, Bytes(<<"y">>), TRUE, 0),
             <<>>}

\* what 'list runningvms' prints while ls runs
RunOutputs == OutputsOf(RunLines)

InitLs ==
    /\ op = "ls"
    /\ args \in [ids : BOOLEAN, vrde : BOOLEAN, running : BOOLEAN]
    /\ pc = "ls_list"
    /\ stdout = <<>>
    /\ ret = None
    /\ exc = "none"
    /\ calls = <<>>
    /\ printed = <<>>
    /\ response = None
    /\ vms = <<>>
    /\ idx = 0
    /\ vm = None
    /\ row = None
    /\ file = NoFile
    /\ file0 = NoFile

\* ls, lines 229-230: max() of an empty list raises ValueError
LsList ==
    /\ pc = "ls_list"
    /\ LET argv == Argv("list", <<>>, <<"vms">>, <<>>)
       IN  \/ \E out \in ListOutputs :
                /\ vbox_manage(argv, TRUE)
                /\ vms' = list_vms(out)
                /\ IF vms' = <<>>
                   THEN /\ exc' = "ValueError"
                        /\ pc' = "raised"
                        /\ idx' = idx
                   ELSE /\ exc' = exc
                        /\ pc' = "ls_color"
                        /\ idx' = 1
                /\ UNCHANGED <<op, args, stdout, ret, printed, response, vm, row, disk>>
           \/ Raises(argv)

\* ls, lines 233-236: the colour, the name and the id of the next VM
LsColor ==
    /\ pc = "ls_color"
    /\ LET argv == Argv("list", <<>>, <<"runningvms">>, <<>>)
       IN  \/ \E out \in RunOutputs :
                /\ vbox_manage(argv, TRUE)
                /\ vm' = vms[idx]
                /\ row' = [color |-> IF is_running(vms[idx], out) THEN "GREEN" ELSE "RESET",
                           name |-> vms[idx].name,
                           id |-> IF args.ids THEN Str(vms[idx].id) ELSE None,
                           vrde |-> None]
                /\ pc' = IF args.vrde THEN "ls_vrde"
                         ELSE IF args.running THEN "ls_filter" ELSE "ls_print"
                /\ UNCHANGED <<op, args, stdout, ret, exc, printed, response, vms, idx, disk>>
           \/ Raises(argv)

\* ls, lines 237-238: vm['VRDE'].decode('utf-8') raises when _info returns None
LsVrde ==
    /\ pc = "ls_vrde"
    /\ LET argv == Argv("showvminfo", vm.id, <<>>, <<>>)
       IN  \/ \E out \in VrdeOutputs :
                /\ vbox_manage(argv, TRUE)
                /\ LET value == info(<<"V", "R", "D", "E">>, out)
                   IN  IF value = None
                       THEN /\ exc' = "AttributeError"
                            /\ pc' = "raised"
                            /\ row' = row
                       ELSE /\ exc' = exc
                            /\ pc' = IF args.running THEN "ls_filter" ELSE "ls_print"
                            /\ row' = [row EXCEPT !.vrde = Str(decode(value.v))]
                /\ UNCHANGED <<op, args, stdout, ret, printed, response, vms, idx, vm, disk>>
           \/ Raises(argv)

\* the loop moves to the next VM, or ls returns
LsAdvance ==
    /\ idx' = idx + 1
    /\ pc' = IF idx + 1 > Len(vms) THEN "done" ELSE "ls_color"

\* ls, lines 239-240: with --running a VM that is not running is skipped
LsFilter ==
    /\ pc = "ls_filter"
    /\ LET argv == Argv("list", <<>>, <<"runningvms">>, <<>>)
       IN  \/ \E out \in RunOutputs :
                /\ vbox_manage(argv, TRUE)
                /\ IF is_running(vm, out)
                   THEN pc' = "ls_print" /\ idx' = idx
                   ELSE LsAdvance
                /\ UNCHANGED <<op, args, stdout, ret, exc, printed, response, vms, vm, row, disk>>
           \/ Raises(argv)

\* ls, line 241
LsPrint ==
    /\ pc = "ls_print"
    /\ printed' = Append(printed, row)
    /\ LsAdvance
    /\ UNCHANGED <<op, args, stdout, ret, exc, calls, response, vms, vm, row, disk>>

NextLs == LsList \/ LsColor \/ LsVrde \/ LsFilter \/ LsPrint

SpecLs == InitLs /\ [][NextLs]_vars

\* C10: when every invocation ls makes exits zero, ls runs to completion
\* without an unhandled error, for every listing and every flag combination.
C10_LsCompletes ==
    (\A k \in 1..Len(calls) : calls[k].ok) => pc # "raised"

\* ---------------------------------------------------------------- defaults

\* Python values: int, str, None and the handler function argparse stores
PyInt(n) == [t |-> "int", n |-> n]
PyStr(x) == [t |-> "str", s |-> x]
PyNone == [t |-> "NoneType"]
PyFunc == [t |-> "function"]

\* JSON text: an object of members, another JSON value, or text that does not parse
JsonObject(members) == [json |-> "object", members |-> members]
JsonArray == [json |-> "array"]
JsonInvalid == [json |-> "invalid"]

Serializable(v) == v.t \in {"int", "str", "NoneType"}

ToJson(v) ==
    CASE v.t = "int" -> [j |-> "number", num |-> v.n]
      [] v.t = "str" -> [j |-> "string", chars |-> v.s]
      [] v.t = "NoneType" -> [j |-> "null"]

FromJson(tok) ==
    CASE tok.j = "number" -> PyInt(tok.num)
      [] tok.j = "string" -> PyStr(tok.chars)
      [] tok.j = "null" -> PyNone

\* json.dumps(d) of a dict whose values are serializable
dumps(d) == JsonObject([k \in DOMAIN d |-> ToJson(d[k])])

Dict(d) == [kind |-> "dict", d |-> d]
List == [kind |-> "list"]
EmptyDict == [k \in {} |-> PyNone]

\* json.loads(text) of text that parses
loads(doc) ==
    IF doc.json = "object"
    THEN Dict([k \in DOMAIN doc.members |-> FromJson(doc.members[k])])
    ELSE List

\* the defaults file: no application directory, no file, or a file holding text
FileText(doc) == [kind |-> "text", doc |-> doc]
NoDir == [kind |-> "nodir"]

Exists(f) == f.kind = "text"

\* get_defaults(): an absent file and one that does not parse give {}
get_defaults(f) ==
    IF ~Exists(f) THEN Dict(EmptyDict)
    ELSE IF f.doc.json = "invalid" THEN Dict(EmptyDict)
    ELSE loads(f.doc)

\* dict.update and del args['func']
Update(d, a) == [k \in DOMAIN d \cup DOMAIN a |-> IF k \in DOMAIN a THEN a[k] ELSE d[k]]
Without(a, key) == [k \in DOMAIN a \ {key} |-> a[k]]

\* what a set_defaults makes of the file and of the call
Outcome(e, f) == [exc |-> e, file |-> f]

\* a set_defaults that starts from the empty mapping whatever the file holds
set_defaults_fresh(f, a) ==
    Outcome("none", FileText(dumps(Update(EmptyDict, Without(a, "func")))))

\* set_defaults(args): read the file, overlay args without 'func', write it back
set_defaults(f, a) ==
    LET defaults == IF Exists(f) /\ f.doc.json # "invalid" THEN loads(f.doc)
                    ELSE Dict(EmptyDict)
        update == Without(a, "func")
    IN  IF defaults.kind # "dict" THEN Outcome("AttributeError", f)
        ELSE Outcome("none", FileText(dumps(Update(defaults.d, update))))

DefaultKeys == {"cpus", "bridge_adapter"}
PyValues == {PyInt(4), PyInt(2), PyStr(<<"e">>), PyNone}
JsonTokens == {ToJson(v) : v \in PyValues}

Maps(keys, values) == UNION {[ks -> values] : ks \in SUBSET keys}

\* vars(args): option values, with or without the handler under 'func'
Updates ==
    LET plain == Maps(DefaultKeys, PyValues)
    IN  plain \cup {Update(u, [k \in {"func"} |-> PyFunc]) : u \in plain}

Files ==
    {NoDir, NoFile, FileText(JsonInvalid), FileText(JsonArray)}
    \cup {FileText(JsonObject(m)) : m \in Maps(DefaultKeys \cup {"func", "os-type"}, JsonTokens)}

InitDefaults ==
    /\ op = "defaults"
    /\ args \in {[update |-> u] : u \in Updates}
    /\ file \in Files
    /\ file0 = file
    /\ pc = "defaults_set"
    /\ stdout = <<>>
    /\ ret = None
    /\ exc = "none"
    /\ calls = <<>>
    /\ printed = <<>>
    /\ response = None
    /\ vms = <<>>
    /\ idx = 0
    /\ vm = None
    /\ row = None

\* defaults, line 254
SetDefaults ==
    /\ pc = "defaults_set"
    /\ LET o == set_defaults(file, args.update)
       IN  /\ file' = o.file
           /\ exc' = o.exc
           /\ pc' = IF o.exc = "none" THEN "defaults_get" ELSE "raised"
    /\ UNCHANGED <<op, args, stdout, ret, calls, locals, file0>>

\* defaults, lines 255-256: max() of an empty mapping raises ValueError
GetDefaults ==
    /\ pc = "defaults_get"
    /\ ret' = get_defaults(file)
    /\ IF DOMAIN ret'.d = {}
       THEN exc' = "ValueError" /\ pc' = "raised"
       ELSE exc' = exc /\ pc' = "defaults_print"
    /\ UNCHANGED <<op, args, stdout, calls, locals, disk>>

\* defaults, lines 258-261: one row per key
PrintDefaults ==
    /\ pc = "defaults_print"
    /\ printed' = <<[keys |-> DOMAIN ret.d]>>
    /\ pc' = "done"
    /\ UNCHANGED <<op, args, stdout, ret, exc, calls, response, vms, idx, vm, row, disk>>

NextDefaults == SetDefaults \/ GetDefaults \/ PrintDefaults

SpecDefaults == InitDefaults /\ [][NextDefaults]_vars

\* the members the file held when the operation started; none when it was
\* absent or did not parse
PriorMembers ==
    IF file0.kind = "text" /\ file0.doc.json = "object" THEN file0.doc.members ELSE EmptyDict

\* C9: after set_defaults(update), get_defaults() returns the mapping the file
\* held before with update overlaid: every key of update but 'func' maps to its
\* new value, every prior key not overlaid keeps its prior value, and there is
\* no other key.
C9_DefaultsRoundTrip ==
    (op = "defaults" /\ ret # None) =>
        LET new == DOMAIN args.update \ {"func"}
        IN  /\ ret.kind = "dict"
            /\ DOMAIN ret.d = DOMAIN PriorMembers \cup new
            /\ \A k \in new : ret.d[k] = args.update[k]
            /\ \A k \in DOMAIN PriorMembers \ new :
                /\ PriorMembers[k].j = "number" => ret.d[k] = PyInt(PriorMembers[k].num)
                /\ PriorMembers[k].j = "string" => ret.d[k] = PyStr(PriorMembers[k].chars)
                /\ PriorMembers[k].j = "null" => ret.d[k] = PyNone

\* an update that sets one key over a file holding another key and 'func'
C9_Witness ==
    /\ op = "defaults" /\ pc = "done"
    /\ DOMAIN args.update = {"cpus", "func"}
    /\ DOMAIN PriorMembers = {"bridge_adapter", "cpus", "func"}
    /\ PriorMembers["cpus"] # ToJson(args.update["cpus"])
    /\ DOMAIN ret.d = {"bridge_adapter", "cpus", "func"}

====
